---- MODULE Spec2Model ----
(***************************************************************************)
(* The two-stage product search of src/product/search.py: a vector-search  *)
(* recall step (get_candidates), a reasoning-model call whose free-text    *)
(* reply is recovered into JSON (rerank_and_filter), and the main block    *)
(* that prints the result.                                                 *)
(*                                                                         *)
(* A text is a sequence of tokens.  Quotes, braces, brackets, the code     *)
(* fence, white space and the newline are tokens of their own, so that the *)
(* regular expressions and the JSON decoder of the source act on the same  *)
(* structure as they do on characters.                                     *)
(***************************************************************************)
EXTENDS Integers, Sequences, FiniteSets, TLC

----------------------------------------------------------------------------
(* Tokens *)

\* the three backticks of a markdown code fence, as one token
FENCE == "<fence>"
LBL == "json"
SP == " "
NL == "\n"
DQ == "\""
SQ == "'"
LB == "{"
RB == "}"
LK == "["
RK == "]"
COLON == ":"
COMMA == ","

IsWS(t) == t \in {SP, NL}

Last(s) == s[Len(s)]

\* the index after the white space that starts at i (regex \s*, json's WHITESPACE.match)
RECURSIVE SkipWS(_, _)
SkipWS(toks, i) ==
  IF i <= Len(toks) /\ IsWS(toks[i]) THEN SkipWS(toks, i + 1) ELSE i

At(toks, i) == IF i >= 1 /\ i <= Len(toks) THEN toks[i] ELSE "<eof>"

SetMax(S) == CHOOSE x \in S : \A y \in S : y <= x
SetMin(S) == CHOOSE x \in S : \A y \in S : x <= y

----------------------------------------------------------------------------
(* re.search of the fenced-block pattern, with re.DOTALL: fence, an optional *)
(* json label, white space, group 2 = \{.*\}, white space, fence.          *)

\* where group 2 starts for a match attempted at the fence at i, 0 when it cannot start
FenceOpen(text, i) ==
  LET p == IF At(text, i + 1) = LBL THEN i + 2 ELSE i + 1
      b == SkipWS(text, p)
  IN IF At(text, i) = FENCE /\ At(text, b) = LB THEN b ELSE 0

\* the closing braces a match whose group 2 starts at b can end on
FenceCloses(text, b) ==
  {j \in (b + 1)..Len(text) :
     text[j] = RB /\ At(text, SkipWS(text, j + 1)) = FENCE}

FenceStarts(text) ==
  {i \in 1..Len(text) :
     FenceOpen(text, i) # 0 /\ FenceCloses(text, FenceOpen(text, i)) # {}}

\* [found, span]: group 2 of the leftmost match, the greedy .* taking the last close
FenceSearch(text) ==
  IF FenceStarts(text) = {} THEN [found |-> FALSE, span |-> <<>>]
  ELSE LET b == FenceOpen(text, SetMin(FenceStarts(text)))
           j == SetMax(FenceCloses(text, b))
       IN [found |-> TRUE, span |-> SubSeq(text, b, j)]

(* re.search(r'\{.*\}', text, re.DOTALL) *)
BraceSearch(text) ==
  LET opens == {i \in 1..Len(text) : text[i] = LB}
      closes == {j \in 1..Len(text) : text[j] = RB}
  IN IF opens = {} \/ closes = {} \/ SetMax(closes) < SetMin(opens)
     THEN [found |-> FALSE, span |-> <<>>]
     ELSE [found |-> TRUE, span |-> SubSeq(text, SetMin(opens), SetMax(closes))]

----------------------------------------------------------------------------
(* re.sub(r"'(.*?)'", r'"\1"', s).  The dot does not match a newline, so a  *)
(* single quote pairs with the nearest single quote after it on its line    *)
(* and the scan resumes after the pair: on each line the quotes pair up in  *)
(* order, 1st with 2nd, 3rd with 4th, and an odd last one is left alone.    *)
(* Each quote of a pair becomes a double quote; nothing else changes.       *)

LineStart(s, i) == SetMax({0} \cup {j \in 1..(i - 1) : s[j] = NL})
LineEnd(s, i) == SetMin({Len(s) + 1} \cup {j \in (i + 1)..Len(s) : s[j] = NL})

\* the single quote at i is one of a matched pair
Paired(s, i) ==
  LET before == Cardinality({j \in (LineStart(s, i) + 1)..i : s[j] = SQ})
      after == Cardinality({j \in (i + 1)..(LineEnd(s, i) - 1) : s[j] = SQ})
  IN before % 2 = 0 \/ after > 0

FixQuotes(s) ==
  [i \in 1..Len(s) |-> IF s[i] = SQ /\ Paired(s, i) THEN DQ ELSE s[i]]

----------------------------------------------------------------------------
(* json.loads on a token sequence.  Values carry a tag; a dict keeps its    *)
(* keys in insertion order and a repeated key overwrites the value.         *)

JNone == [t |-> "none"]
JNull == [t |-> "null"]
JNum == [t |-> "num"]
JStr(s) == [t |-> "str", s |-> s]
JArr(a) == [t |-> "arr", a |-> a]
JObj(o) == [t |-> "obj", o |-> o]

Fail == [ok |-> FALSE]
Ok(v, i) == [ok |-> TRUE, v |-> v, i |-> i]

DictHas(o, k) == \E n \in 1..Len(o) : o[n].k = k
DictGet(o, k) == o[CHOOSE n \in 1..Len(o) : o[n].k = k].v
DictSet(o, k, v) ==
  IF DictHas(o, k)
  THEN [n \in 1..Len(o) |-> IF o[n].k = k THEN [k |-> k, v |-> v] ELSE o[n]]
  ELSE Append(o, [k |-> k, v |-> v])

\* the index of the quote closing a JSON string, 0 when a raw newline or the end comes first
RECURSIVE StrClose(_, _)
StrClose(toks, j) ==
  IF j > Len(toks) \/ toks[j] = NL THEN 0
  ELSE IF toks[j] = DQ THEN j
  ELSE StrClose(toks, j + 1)

ParseString(toks, i) ==
  IF At(toks, i) # DQ \/ StrClose(toks, i + 1) = 0 THEN Fail
  ELSE LET j == StrClose(toks, i + 1)
       IN Ok(JStr(SubSeq(toks, i + 1, j - 1)), j + 1)

RECURSIVE ParseValue(_, _), ParseElems(_, _, _), ParseMembers(_, _, _)

ParseValue(toks, i) ==
  LET c == At(toks, i) IN
  IF c = DQ THEN ParseString(toks, i)
  ELSE IF c = "1" THEN Ok(JNum, i + 1)
  ELSE IF c = "null" THEN Ok(JNull, i + 1)
  ELSE IF c = LK
       THEN LET k == SkipWS(toks, i + 1)
            IN IF At(toks, k) = RK THEN Ok(JArr(<<>>), k + 1)
               ELSE ParseElems(toks, k, <<>>)
  ELSE IF c = LB
       THEN LET k == SkipWS(toks, i + 1)
            IN IF At(toks, k) = RB THEN Ok(JObj(<<>>), k + 1)
               ELSE ParseMembers(toks, k, <<>>)
  ELSE Fail

\* the elements of an array from i on, acc holding those already decoded
ParseElems(toks, i, acc) ==
  LET r == ParseValue(toks, i) IN
  IF ~r.ok THEN Fail
  ELSE LET k == SkipWS(toks, r.i)
           c == At(toks, k)
       IN IF c = RK THEN Ok(JArr(Append(acc, r.v)), k + 1)
          ELSE IF c = COMMA
               THEN ParseElems(toks, SkipWS(toks, k + 1), Append(acc, r.v))
          ELSE Fail

\* the members of an object from i on, acc holding those already decoded
ParseMembers(toks, i, acc) ==
  LET key == ParseString(toks, i) IN
  IF ~key.ok THEN Fail
  ELSE LET k == SkipWS(toks, key.i) IN
       IF At(toks, k) # COLON THEN Fail
       ELSE LET r == ParseValue(toks, SkipWS(toks, k + 1)) IN
            IF ~r.ok THEN Fail
            ELSE LET m == SkipWS(toks, r.i)
                     c == At(toks, m)
                     d == DictSet(acc, key.v.s, r.v)
                 IN IF c = RB THEN Ok(JObj(d), m + 1)
                    ELSE IF c = COMMA
                         THEN ParseMembers(toks, SkipWS(toks, m + 1), d)
                    ELSE Fail

\* json.loads(s): one value with white space around it and nothing after
Loads(toks) ==
  LET r == ParseValue(toks, SkipWS(toks, 1)) IN
  IF r.ok /\ SkipWS(toks, r.i) = Len(toks) + 1 THEN [ok |-> TRUE, v |-> r.v]
  ELSE Fail

----------------------------------------------------------------------------
(* Bounds and the inputs drawn from them *)

\* the longest candidate list the index returns in the model
MaxCands == 2
\* the longest enumerated item list of a reply (the two long lists come on top)
MaxReplyItems == 2
\* "Return a JSON list of the top 5 products" of the prompt
TopN == 5
\* get_candidates(user_query, top_k=25)
DefaultTopK == 25

CatalogCodes == {"A", "B"}
\* codes a reply may name: the catalog's and one the model made up
ReplyCodes == CatalogCodes \cup {"Z"}

Queries == {"Healthy snacks"}
TopKs == {0 - 1, 0, 1, DefaultTopK}

SeqsUpTo(S, n) == UNION {[1..m -> S] : m \in 0..n}

Record(c) == [code |-> c, product_name |-> "x", summary |-> "x"]

\* the rows the index can return: distinct products, most similar first
CandLists ==
  {[i \in 1..Len(cs) |-> Record(cs[i])] :
     cs \in {x \in SeqsUpTo(CatalogCodes, MaxCands) :
               \A i, j \in 1..Len(x) : i # j => x[i] # x[j]}}

IndexErrors == {"TransportError", "ServiceError"}

\* what bq_client.query(...).to_dataframe() can do for a top_k: raise, or
\* return at most top_k rows
IndexResponses(k) ==
  {[ok |-> FALSE, err |-> e, rows |-> <<>>] : e \in IndexErrors}
    \cup {[ok |-> TRUE, err |-> "none", rows |-> c] :
            c \in {x \in CandLists : Len(x) <= k}}

RECURSIVE Join(_, _)
Join(parts, sep) ==
  IF parts = <<>> THEN <<>>
  ELSE IF Len(parts) = 1 THEN parts[1]
  ELSE parts[1] \o sep \o Join(Tail(parts), sep)

Str(q, w) == <<q, w, q>>
Member(q, k, val) == Str(q, k) \o <<COLON, SP>> \o val
Doc(members) == <<LB>> \o Join(members, <<COMMA, SP>>) \o <<RB>>
List(elems) == <<LK>> \o Join(elems, <<COMMA, SP>>) \o <<RK>>

FullItem(q, c) ==
  Doc(<<Member(q, "code", Str(q, c)), Member(q, "name", Str(q, "x")),
        Member(q, "explanation", Str(q, "x"))>>)
NoNameItem(q, c) ==
  Doc(<<Member(q, "code", Str(q, c)), Member(q, "explanation", Str(q, "x"))>>)
ResultsDoc(q, val) == Doc(<<Member(q, "results", val)>>)

CodeLists ==
  SeqsUpTo(ReplyCodes, MaxReplyItems)
    \cup {[i \in 1..n |-> IF i % 2 = 1 THEN "A" ELSE "B"] : n \in {TopN, TopN + 1}}

\* replies holding a well-formed answer, in the quote style q
GoodPayloads(q) ==
  {ResultsDoc(q, List([i \in 1..Len(cs) |-> FullItem(q, cs[i])])) : cs \in CodeLists}

\* replies whose answer is JSON of another shape, or no JSON
OddPayloads(q) ==
  { ResultsDoc(q, List(<<NoNameItem(q, "A")>>)),
    ResultsDoc(q, List(<<FullItem(q, "A"), NoNameItem(q, "B")>>)),
    ResultsDoc(q, List(<<Str(q, "A")>>)),
    ResultsDoc(q, List(<<FullItem(q, "B"), <<"1">> >>)),
    ResultsDoc(q, <<"1">>),
    ResultsDoc(q, <<"null">>),
    ResultsDoc(q, Str(q, "A")),
    ResultsDoc(q, <<q, q>>),
    ResultsDoc(q, Doc(<<>>)),
    ResultsDoc(q, FullItem(q, "A")),
    Doc(<<>>),
    Doc(<<Member(q, "code", Str(q, "A"))>>),
    Doc(<<Member(q, "items", List(<<FullItem(q, "A")>>))>>),
    Doc(<<Member(q, "results", List(<<FullItem(q, "A")>>)),
          Member(q, "results", List(<<>>))>>),
    <<LB>> \o Member(q, "results", List(<<>>)) \o <<COMMA, RB>>,
    <<LB>> \o Member(q, "results", <<LK>>) \o <<RB>>,
    <<LB, "results", COLON>> \o List(<<>>) \o <<RB>>,
    ResultsDoc(q, List(<<Doc(<<Member(q, "code", Str(q, "A")),
                               Member(q, "name", Str(q, "x")),
                               Member(q, "explanation", <<q, "x", SQ, "x", q>>)>>)>>)),
    ResultsDoc(q, List(<<Doc(<<Member(q, "code", Str(q, "A")),
                               Member(q, "name", Str(q, "x")),
                               Member(q, "explanation",
                                      <<q, "x", SP, SQ, "x", SQ, q>>)>>)>>)),
    ResultsDoc(q, List(<<Doc(<<Member(q, "code", Str(q, "A")),
                               Member(q, "name", Str(q, "x")),
                               Member(q, "explanation", <<q, "x", NL, "x", q>>)>>)>>)),
    <<LB>> \o Str(q, "results") \o <<COLON, NL>> \o List(<<FullItem(DQ, "A")>>)
      \o <<NL, RB>>,
    <<LB>> \o Str(q, "results") \o <<COLON>>
      \o List(<<Doc(<<Member(q, "code", <<DQ, "x", SQ, "A", DQ>>),
                      Member(q, "name", Str(DQ, "x")),
                      Member(q, "explanation", Str(q, "x"))>>)>>) \o <<RB>> }

Payloads == UNION {GoodPayloads(q) \cup OddPayloads(q) : q \in {DQ, SQ}}

\* the ways a reply wraps its answer p in a fence or in prose
Wrappings(p) ==
  { p,
    <<"x", SP>> \o p \o <<SP, "x">>,
    <<FENCE, LBL, NL>> \o p \o <<NL, FENCE>>,
    <<"x", NL, FENCE, SP>> \o p \o <<FENCE, NL, "x">>,
    <<FENCE, LBL, NL>> \o p,
    <<"x", LB, "x", RB, SP>> \o p,
    <<LB, "x", RB, NL, FENCE, LBL, NL>> \o p \o <<NL, FENCE, SP, "x", RB>> }

\* a reply with two fenced blocks
TwoBlocks(p, q) == <<FENCE, NL>> \o p \o <<NL, FENCE, NL, FENCE, NL>> \o q \o <<NL, FENCE>>

Replies ==
  UNION {Wrappings(p) : p \in Payloads}
    \cup {TwoBlocks(ResultsDoc(q, List(<<FullItem(q, "A")>>)),
                     ResultsDoc(q, List(<<FullItem(q, "B")>>))) : q \in {DQ, SQ}}
    \cup { <<>>, <<"x">>, <<"x", SP, "x">>, <<LB>>, <<RB, LB>>,
           <<FENCE, LBL, NL, "x", NL, FENCE>>, <<FENCE, LBL, NL, LK, RK, NL, FENCE>> }

ModelErrors == {"ModelCallError"}

\* what gemini_model.generate_content(prompt).text can do: raise, or give a text
ModelResponses ==
  {[ok |-> FALSE, err |-> e, text |-> <<>>] : e \in ModelErrors}
    \cup {[ok |-> TRUE, err |-> "none", text |-> t] : t \in Replies}

----------------------------------------------------------------------------
(* rerank_and_filter, lines 66-94, as functions of the reply text *)

\* the two searches in the other order: the brace span first
ExtractSpanBraceFirst(text) ==
  LET b == BraceSearch(text) IN
  IF b.found THEN [found |-> TRUE, span |-> b.span, tried |-> <<"brace">>]
  ELSE LET f == FenceSearch(text)
       IN [found |-> f.found, span |-> f.span, tried |-> <<"brace", "fence">>]

\* lines 67-76: json_str from the fenced block, else from the brace span;
\* tried lists the searches made, in order
ExtractSpan(text) ==
  LET f == FenceSearch(text) IN
  IF f.found THEN [found |-> TRUE, span |-> f.span, tried |-> <<"fence">>]
  ELSE LET b == BraceSearch(text)
       IN [found |-> b.found, span |-> b.span, tried |-> <<"fence", "brace">>]

\* line 83: json.loads(json_str)
StrictDecode(json_str) == Loads(json_str)

\* lines 89-90: json.loads of the quote-rewritten json_str
RepairDecode(json_str) == Loads(FixQuotes(json_str))

----------------------------------------------------------------------------
(* The main block, lines 107-109 *)

\* Python truth of a value
Truthy(v) ==
  CASE v.t = "none" -> FALSE
    [] v.t = "null" -> FALSE
    [] v.t = "num" -> TRUE
    [] v.t = "str" -> v.s # <<>>
    [] v.t = "arr" -> v.a # <<>>
    [] v.t = "obj" -> v.o # <<>>

KeyResults == <<"results">>
ItemKeys == << <<"code">>, <<"name">>, <<"explanation">> >>

\* final_results and 'results' in final_results
HasResults(v) == Truthy(v) /\ v.t = "obj" /\ DictHas(v.o, KeyResults)

\* what `for item in v` walks, or the TypeError of a value that cannot be iterated
Iterate(v) ==
  CASE v.t = "arr" -> [ok |-> TRUE, items |-> v.a]
    [] v.t = "str" -> [ok |-> TRUE, items |-> [i \in 1..Len(v.s) |-> JStr(<<v.s[i]>>)]]
    [] v.t = "obj" -> [ok |-> TRUE, items |-> [i \in 1..Len(v.o) |-> JStr(v.o[i].k)]]
    [] OTHER -> [ok |-> FALSE, items |-> <<>>]

Line(item) ==
  [code |-> DictGet(item.o, ItemKeys[1]), name |-> DictGet(item.o, ItemKeys[2]),
   explanation |-> DictGet(item.o, ItemKeys[3])]

\* lines 108-109 from the k-th item on: the lines printed and the exception that ends the loop
RECURSIVE PrintItems(_, _, _)
PrintItems(items, k, out) ==
  IF k > Len(items) THEN [exc |-> "none", out |-> out]
  ELSE LET item == items[k] IN
       IF item.t # "obj" THEN [exc |-> "TypeError", out |-> out]
       ELSE IF \E n \in 1..Len(ItemKeys) : ~DictHas(item.o, ItemKeys[n])
            THEN [exc |-> "KeyError", out |-> out]
       ELSE PrintItems(items, k + 1, Append(out, Line(item)))

\* lines 107-109 on the value rerank_and_filter returned
PrintResults(v) ==
  IF ~HasResults(v) THEN [exc |-> "none", out |-> <<>>]
  ELSE LET it == Iterate(DictGet(v.o, KeyResults)) IN
       IF ~it.ok THEN [exc |-> "TypeError", out |-> <<>>]
       ELSE PrintItems(it.items, 1, <<>>)

----------------------------------------------------------------------------
(* The program state *)

VARIABLES
  pc,             \* where the main block stands
  run,            \* 1 for the first execution of the main block, 2 for the repeat
  user_input,     \* the query
  top_k,          \* the top_k get_candidates is called with
  candidates,     \* what get_candidates returned
  response_text,  \* response.text
  json_str,       \* the extracted span; <<>> stands for None
  final_results,  \* what rerank_and_filter returned; JNone stands for None
  printed,        \* the result lines written by lines 108-109 in this run
  exc,            \* the exception that ended this run, "none" if none did
  indexLog,       \* the bq_client.query calls of this run
  modelLog,       \* the generate_content calls of this run
  stages,         \* the searches and decodes rerank_and_filter made in this run
  log,            \* the warnings and errors printed in this run
  indexWorld,     \* <<r>> once the index has answered r; it answers alike again
  modelWorld,     \* <<r>> once the reasoning model has answered r
  first           \* <<outcome>> of the first run, once it is over

\* scrape_category of src/product/whproductscrape.py
VARIABLES
  spc,            \* where scrape_category stands
  offset,         \* the offset of the next request
  all_products,   \* the products gathered so far
  requested,      \* the offsets of the requests made, in order
  pages,          \* what each request met, in order
  result          \* the list returned

searchVars == <<pc, run, user_input, top_k, candidates, response_text, json_str,
                final_results, printed, exc, indexLog, modelLog, stages, log,
                indexWorld, modelWorld, first>>

scrapeVars == <<spc, offset, all_products, requested, pages, result>>

vars == <<searchVars, scrapeVars>>

Terminal == pc \in {"done", "crashed"}

Outcome == [pc |-> pc, exc |-> exc, printed |-> printed]

\* lines 45-62: the prompt carries the query and the candidates
Prompt(q, c) == [query |-> q, candidates |-> c]

Init ==
  /\ pc = "idle"
  /\ run = 1
  /\ user_input = "Healthy snacks"
  /\ top_k = DefaultTopK
  /\ candidates = <<>>
  /\ response_text = <<>>
  /\ json_str = <<>>
  /\ final_results = JNone
  /\ printed = <<>>
  /\ exc = "none"
  /\ indexLog = <<>>
  /\ modelLog = <<>>
  /\ stages = <<>>
  /\ log = <<>>
  /\ indexWorld = <<>>
  /\ modelWorld = <<>>
  /\ first = <<>>
  /\ spc = "idle"
  /\ offset = 0
  /\ all_products = <<>>
  /\ requested = <<>>
  /\ pages = <<>>
  /\ result = <<>>

\* lines 97-102: the query and the top_k of the call get_candidates(user_query, top_k)
Start(q, k) ==
  /\ pc = "idle"
  /\ user_input' = q
  /\ top_k' = k
  /\ pc' = "retrieving"
  /\ UNCHANGED <<scrapeVars, run, candidates, response_text, json_str, final_results, printed,
                 exc, indexLog, modelLog, stages, log, indexWorld, modelWorld, first>>

\* get_candidates repeating a failed query once before giving up
GetCandidatesRetry ==
  /\ pc = "retrieving"
  /\ \E r \in (IF indexWorld = <<>> THEN IndexResponses(top_k) ELSE {indexWorld[1]}) :
       /\ indexWorld' = <<r>>
       /\ IF r.ok
          THEN /\ indexLog' = Append(indexLog, [text |-> user_input, top_k |-> top_k])
               /\ candidates' = r.rows
               /\ pc' = "reasoning"
               /\ exc' = exc
          ELSE /\ indexLog' = indexLog \o <<[text |-> user_input, top_k |-> top_k],
                                            [text |-> user_input, top_k |-> top_k]>>
               /\ candidates' = candidates
               /\ pc' = "crashed"
               /\ exc' = r.err
  /\ UNCHANGED <<scrapeVars, run, user_input, top_k, response_text, json_str, final_results,
                 printed, modelLog, stages, log, modelWorld, first>>

\* get_candidates catching the failure of the query and returning no rows
GetCandidatesSwallows ==
  /\ pc = "retrieving"
  /\ \E r \in (IF indexWorld = <<>> THEN IndexResponses(top_k) ELSE {indexWorld[1]}) :
       /\ indexWorld' = <<r>>
       /\ indexLog' = Append(indexLog, [text |-> user_input, top_k |-> top_k])
       /\ candidates' = IF r.ok THEN r.rows ELSE <<>>
       /\ pc' = "reasoning"
       /\ exc' = exc
  /\ UNCHANGED <<scrapeVars, run, user_input, top_k, response_text, json_str, final_results,
                 printed, modelLog, stages, log, modelWorld, first>>

\* get_candidates, lines 22-41: one query; its exception is not caught
GetCandidates ==
  /\ pc = "retrieving"
  /\ \E r \in (IF indexWorld = <<>> THEN IndexResponses(top_k) ELSE {indexWorld[1]}) :
       /\ indexWorld' = <<r>>
       /\ indexLog' = Append(indexLog, [text |-> user_input, top_k |-> top_k])
       /\ IF r.ok
          THEN /\ candidates' = r.rows
               /\ pc' = "reasoning"
               /\ exc' = exc
          ELSE /\ candidates' = candidates
               /\ pc' = "crashed"
               /\ exc' = r.err
  /\ UNCHANGED <<scrapeVars, run, user_input, top_k, response_text, json_str, final_results,
                 printed, modelLog, stages, log, modelWorld, first>>

\* rerank_and_filter, lines 45-64: called whatever the candidates are; one
\* generate_content call, its exception not caught
Generate ==
  /\ pc = "reasoning"
  /\ \E r \in (IF modelWorld = <<>> THEN ModelResponses ELSE {modelWorld[1]}) :
       /\ modelWorld' = <<r>>
       /\ modelLog' = Append(modelLog, Prompt(user_input, candidates))
       /\ IF r.ok
          THEN /\ response_text' = r.text
               /\ pc' = "extract"
               /\ exc' = exc
          ELSE /\ response_text' = response_text
               /\ pc' = "crashed"
               /\ exc' = r.err
  /\ UNCHANGED <<scrapeVars, run, user_input, top_k, candidates, json_str, final_results,
                 printed, indexLog, stages, log, indexWorld, first>>

\* lines 67-80: the span, or the warning and None
Extract ==
  /\ pc = "extract"
  /\ LET e == ExtractSpan(response_text) IN
       /\ stages' = stages \o e.tried
       /\ json_str' = e.span
       /\ IF e.span = <<>>
          THEN /\ log' = Append(log, "Warning: Could not find a JSON block")
               /\ final_results' = JNone
               /\ pc' = "deliver"
          ELSE /\ log' = log
               /\ final_results' = final_results
               /\ pc' = "strict"
  /\ UNCHANGED <<scrapeVars, run, user_input, top_k, candidates, response_text, printed, exc,
                 indexLog, modelLog, indexWorld, modelWorld, first>>

\* lines 82-86: the strict decode, returned when it succeeds
Strict ==
  /\ pc = "strict"
  /\ LET d == StrictDecode(json_str) IN
       /\ stages' = Append(stages, "strict")
       /\ IF d.ok
          THEN /\ final_results' = d.v
               /\ log' = log
               /\ pc' = "deliver"
          ELSE /\ final_results' = final_results
               /\ log' = Append(log, "Warning: Model returned malformed JSON")
               /\ pc' = "repair"
  /\ UNCHANGED <<scrapeVars, run, user_input, top_k, candidates, response_text, json_str, printed,
                 exc, indexLog, modelLog, indexWorld, modelWorld, first>>

\* lines 87-94: the decode of the quote-rewritten span, else the error, the
\* original text and None
Repair ==
  /\ pc = "repair"
  /\ LET d == RepairDecode(json_str) IN
       /\ stages' = Append(stages, "repair")
       /\ IF d.ok
          THEN /\ final_results' = d.v
               /\ log' = log
          ELSE /\ final_results' = JNone
               /\ log' = log \o <<"Error: Failed to parse JSON",
                                  "Original response text">>
       /\ pc' = "deliver"
  /\ UNCHANGED <<scrapeVars, run, user_input, top_k, candidates, response_text, json_str, printed,
                 exc, indexLog, modelLog, indexWorld, modelWorld, first>>

Reverse(seq) == [i \in 1..Len(seq) |-> seq[Len(seq) + 1 - i]]

\* the main block walking the results in an order that is not fixed
DeliverUnordered ==
  /\ pc = "deliver"
  /\ LET p == PrintResults(final_results) IN
       /\ printed' \in {p.out, Reverse(p.out)}
       /\ exc' = p.exc
       /\ pc' = IF p.exc = "none" THEN "done" ELSE "crashed"
  /\ UNCHANGED <<scrapeVars, run, user_input, top_k, candidates, response_text, json_str,
                 final_results, indexLog, modelLog, stages, log, indexWorld,
                 modelWorld, first>>

\* lines 107-109: the lines printed; a KeyError or TypeError is not caught
Deliver ==
  /\ pc = "deliver"
  /\ LET p == PrintResults(final_results) IN
       /\ printed' = p.out
       /\ exc' = p.exc
       /\ pc' = IF p.exc = "none" THEN "done" ELSE "crashed"
  /\ UNCHANGED <<scrapeVars, run, user_input, top_k, candidates, response_text, json_str,
                 final_results, indexLog, modelLog, stages, log, indexWorld,
                 modelWorld, first>>

\* the script run once more on the same query and top_k; the module-level
\* names keep their values until the run assigns them
Restart ==
  /\ Terminal
  /\ run = 1
  /\ run' = 2
  /\ first' = <<Outcome>>
  /\ pc' = "retrieving"
  /\ printed' = <<>>
  /\ exc' = "none"
  /\ indexLog' = <<>>
  /\ modelLog' = <<>>
  /\ stages' = <<>>
  /\ log' = <<>>
  /\ UNCHANGED <<scrapeVars, user_input, top_k, candidates, response_text, json_str,
                 final_results, indexWorld, modelWorld>>

Next ==
  \/ \E q \in Queries, k \in TopKs : Start(q, k)
  \/ GetCandidates
  \/ Generate
  \/ Extract
  \/ Strict
  \/ Repair
  \/ Deliver
  \/ Restart

Spec == Init /\ [][Next]_vars

----------------------------------------------------------------------------
(* Predicates on a run *)

\* the index call of this run was made and returned no rows
EmptyRecall ==
  indexLog # <<>> /\ indexWorld # <<>> /\ indexWorld[1].ok /\ indexWorld[1].rows = <<>>

\* the index call of this run was made and raised
IndexFailed == indexLog # <<>> /\ indexWorld # <<>> /\ ~indexWorld[1].ok

\* rerank_and_filter has returned in this run
ParserDone == stages # <<>> /\ pc \in {"deliver", "done", "crashed"}

\* rerank_and_filter returned None: no span, or both decodes failed
ParseExhausted == ParserDone /\ final_results.t = "none"

CandidateCodes == {candidates[i].code : i \in 1..Len(candidates)}

Count(seq, x) == Cardinality({i \in 1..Len(seq) : seq[i] = x})

\* an item with a code, a name and an explanation
CompleteItem(v) ==
  v.t = "obj" /\ \A n \in 1..Len(ItemKeys) : DictHas(v.o, ItemKeys[n])

----------------------------------------------------------------------------
(* C1.  Empty-recall short circuit: in a run whose get_candidates call      *)
(* returned an empty list the reasoning model is never called, and the run  *)
(* ends in success with an empty result (stated for a valid top_k).         *)
C1_EmptyRecallShortCircuit ==
  (EmptyRecall /\ top_k > 0) =>
    /\ modelLog = <<>>
    /\ Terminal => (pc = "done" /\ printed = <<>>)

(* C2.  When the parser exhausts its recovery stages, the run ends Failed   *)
(* with a RerankUnavailable error: never in success, never with a result.   *)
C2_ParseFailureFails ==
  (ParseExhausted /\ Terminal /\ top_k > 0) =>
    (pc = "crashed" /\ exc = "RerankUnavailable" /\ printed = <<>>)

(* C3.  Code integrity: every item a successful run delivers carries the    *)
(* code of one of the candidates get_candidates returned in that run        *)
(* (stated for the runs with a valid top_k and a candidate to choose).      *)
C3_CodeIntegrity ==
  (pc = "done" /\ top_k > 0 /\ candidates # <<>>) =>
    \A i \in 1..Len(printed) :
      /\ printed[i].code.t = "str"
      /\ \E c \in CandidateCodes : printed[i].code.s = <<c>>

(* C4.  Bounded output: a successful run delivers at most 5 items (stated   *)
(* for the runs with a valid top_k and a candidate to choose).              *)
C4_BoundedOutput ==
  (pc = "done" /\ top_k > 0 /\ candidates # <<>>) => Len(printed) <= TopN

(* C5.  Invalid top_k: with top_k <= 0 retrieval fails with InvalidArgument *)
(* and neither the candidate index nor the reasoning model has been called. *)
C5_InvalidTopK ==
  (pc # "idle" /\ top_k <= 0) =>
    /\ indexLog = <<>>
    /\ modelLog = <<>>
    /\ Terminal => (pc = "crashed" /\ exc = "InvalidArgument")

(* C6.  Call counts per run: a run never makes a second candidate-index     *)
(* call or a second reasoning-model call, and a run that has reached a      *)
(* terminal state has made exactly one candidate-index call.                *)
C6_CallCounts ==
  /\ Len(indexLog) <= 1
  /\ Len(modelLog) <= 1
  /\ Terminal => Len(indexLog) = 1
  /\ modelLog # <<>> => Len(indexLog) = 1

\* a run has ended after both decodes of the reply failed
C6_Witness ==
  /\ Terminal
  /\ ParseExhausted
  /\ Last(stages) = "repair"
  /\ Len(indexLog) = 1
  /\ Len(modelLog) = 1

StageOrders ==
  { <<>>, <<"fence">>, <<"fence", "brace">>, <<"fence", "strict">>,
    <<"fence", "brace", "strict">>, <<"fence", "strict", "repair">>,
    <<"fence", "brace", "strict", "repair">> }

\* the stages were taken in order, each only when the one before it failed,
\* and the value returned is that of the first decode that succeeded
ChainOrder ==
  /\ stages \in StageOrders
  /\ stages # <<>> =>
       LET f == FenceSearch(response_text) IN
       /\ Count(stages, "brace") > 0 <=> ~f.found
       /\ Count(stages, "strict") > 0 =>
            /\ json_str # <<>>
            /\ json_str = IF f.found THEN f.span ELSE BraceSearch(response_text).span
  /\ (stages # <<>> /\ Count(stages, "strict") = 0 /\ pc # "strict") =>
       (ParserDone /\ json_str = <<>> /\ final_results.t = "none")
  /\ Count(stages, "strict") > 0 =>
       LET d == Loads(json_str) IN
       /\ Count(stages, "repair") > 0 => ~d.ok
       /\ ParserDone =>
            IF d.ok
            THEN Last(stages) = "strict" /\ final_results = d.v
            ELSE /\ Last(stages) = "repair"
                 /\ LET r == Loads(FixQuotes(json_str)) IN
                    IF r.ok THEN final_results = r.v ELSE final_results.t = "none"

\* rerank_and_filter returned a decoded value that has no results key
LacksResults ==
  ParserDone /\ final_results.t = "obj" /\ ~DictHas(final_results.o, KeyResults)

C9_NoPartialResult ==
  (/\ ParserDone
   /\ top_k > 0
   /\ final_results.t = "obj"
   /\ DictHas(final_results.o, KeyResults)
   /\ DictGet(final_results.o, KeyResults).t = "arr") =>
    \A i \in 1..Len(DictGet(final_results.o, KeyResults).a) :
      DictGet(final_results.o, KeyResults).a[i].t = "obj" =>
        CompleteItem(DictGet(final_results.o, KeyResults).a[i])

(* C10.  Idempotence: a second run with the same query and top_k, in which  *)
(* the index returns the same rows and the reasoning model the same text,   *)
(* ends as the first run did, with the same result.                         *)
C10_Idempotent == (run = 2 /\ Terminal) => Outcome = first[1]

\* a second run has delivered two or more lines
C10_Witness == run = 2 /\ pc = "done" /\ Len(printed) >= 2 /\ printed[1] # printed[2]

----------------------------------------------------------------------------
(* scrape_category of src/product/whproductscrape.py, lines 24-57 *)

\* the requests after which the server has only a stopping page left
MaxPages == 3
\* limit = 60
Limit == 60

\* the product lists of the pages that have products
PageLists == { <<"p1">>, <<"p2", "p1">>, <<"p1", "p2", "p3">> }

Page(raises, status, body, items) ==
  [raises |-> raises, status |-> status, body |-> body, items |-> items]

\* pages that carry products: status 200 and a results list that is not empty
GoodPages == {Page(FALSE, 200, "list", l) : l \in PageLists}

\* the other things a request can meet: requests.get raising, a status other
\* than 200 (with or without products in its body), a body that is no JSON or
\* no dict, or a dict whose results is missing, None, a number or empty
OtherPages ==
  { Page(TRUE, 0, "none", <<>>),
    Page(FALSE, 404, "list", <<"p1">>),
    Page(FALSE, 500, "notjson", <<>>),
    Page(FALSE, 200, "notjson", <<>>),
    Page(FALSE, 200, "array", <<>>),
    Page(FALSE, 200, "missing", <<>>),
    Page(FALSE, 200, "null", <<>>),
    Page(FALSE, 200, "num", <<>>),
    Page(FALSE, 200, "list", <<>>) }

\* what the n-th request can meet: the category runs out of products after
\* MaxPages pages at the latest
ServerResponses(n) == IF n <= MaxPages THEN GoodPages \cup OtherPages ELSE OtherPages

\* line 39: response.json() raises on a body that is no JSON
JsonRaises(r) == r.body = "notjson"

\* line 40: data.get("results", []), which raises when data is no dict
GetRaises(r) == r.body = "array"
Products(r) ==
  CASE r.body = "list" -> JArr(r.items)
    [] r.body = "missing" -> JArr(<<>>)
    [] r.body = "null" -> JNull
    [] r.body = "num" -> JNum
    [] OTHER -> JNone

\* lines 34-55 on what the request met: "break" with nothing kept, or "next"
\* with the products to add
Body(r) ==
  IF r.raises THEN [go |-> "break", add |-> <<>>]
  ELSE IF r.status # 200 THEN [go |-> "break", add |-> <<>>]
  ELSE IF JsonRaises(r) \/ GetRaises(r) THEN [go |-> "break", add |-> <<>>]
  ELSE IF ~Truthy(Products(r)) THEN [go |-> "break", add |-> <<>>]
  ELSE IF ~Iterate(Products(r)).ok THEN [go |-> "break", add |-> <<>>]
  ELSE [go |-> "next", add |-> Iterate(Products(r)).items]

\* lines 25-27
ScrapeStart ==
  /\ spc = "idle"
  /\ all_products' = <<>>
  /\ offset' = 0
  /\ spc' = "loop"
  /\ UNCHANGED <<searchVars, requested, pages, result>>

\* one pass of the loop without the advance of the offset
ScrapeIterationNoAdvance ==
  /\ spc = "loop"
  /\ \E r \in ServerResponses(Len(requested) + 1) :
       /\ requested' = Append(requested, offset)
       /\ pages' = Append(pages, r)
       /\ all_products' = all_products \o Body(r).add
       /\ offset' = offset
       /\ spc' = IF Body(r).go = "next" THEN "loop" ELSE "broke"
  /\ UNCHANGED <<searchVars, result>>

\* lines 29-55: one pass of the loop: the request at the offset, then the
\* break, or the products added and the offset advanced
ScrapeIteration ==
  /\ spc = "loop"
  /\ \E r \in ServerResponses(Len(requested) + 1) :
       /\ requested' = Append(requested, offset)
       /\ pages' = Append(pages, r)
       /\ IF Body(r).go = "next"
          THEN /\ all_products' = all_products \o Body(r).add
               /\ offset' = offset + Limit
               /\ spc' = "loop"
          ELSE /\ all_products' = all_products
               /\ offset' = offset
               /\ spc' = "broke"
  /\ UNCHANGED <<searchVars, result>>

\* line 57
ScrapeReturn ==
  /\ spc = "broke"
  /\ result' = all_products
  /\ spc' = "returned"
  /\ UNCHANGED <<searchVars, offset, all_products, requested, pages>>

ScrapeNext ==
  \/ ScrapeStart
  \/ ScrapeIteration
  \/ ScrapeReturn

\* the loop is sequential code: it takes its next step as long as it has one
SpecScrape == Init /\ [][ScrapeNext]_vars /\ WF_vars(ScrapeNext)

----------------------------------------------------------------------------
\* a page at which the claim says the loop stops: a status other than 200, an
\* exception, or no results list with something in it
StoppingPage(r) ==
  \/ r.raises
  \/ r.status # 200
  \/ r.body # "list"
  \/ r.items = <<>>

\* the products of the first n pages, in request order
RECURSIVE Concat(_, _)
Concat(ps, n) == IF n = 0 THEN <<>> ELSE Concat(ps, n - 1) \o ps[n].items

C11_Safe ==
  /\ Len(pages) = Len(requested)
  /\ \A i \in 1..Len(requested) : requested[i] = (i - 1) * Limit
  /\ \A i \in 1..(Len(pages) - 1) : ~StoppingPage(pages[i])
  /\ spc = "loop" => \A i \in 1..Len(pages) : ~StoppingPage(pages[i])
  /\ spc \in {"broke", "returned"} =>
       /\ pages # <<>>
       /\ StoppingPage(Last(pages))
       /\ all_products = Concat(pages, Len(pages) - 1)
  /\ spc = "loop" => all_products = Concat(pages, Len(pages))
  /\ spc = "returned" => result = Concat(pages, Len(pages) - 1)

(* C11.  Pagination in scrape_category: the pages are requested at the       *)
(* offsets 0, 60, 120, ... in order, none twice; the loop stops at the      *)
(* first page with a status other than 200, without a results list that has *)
(* something in it, or raising, and requests nothing after it; the list     *)
(* returned is the products of the pages before it, in request order; and   *)
(* the loop ends, the server having such a stopping page in the end.        *)
C11_Pagination == [](C11_Safe) /\ <>(spc = "returned")

\* the list of three pages was returned after a fourth page stopped the loop
C11_Witness ==
  /\ spc = "returned"
  /\ requested = <<0, Limit, 2 * Limit, 3 * Limit>>
  /\ Len(result) > 3
  /\ Last(pages).status # 200

====
